---------------------------- MODULE Spec2Model ----------------------------
(***************************************************************************)
(* A model of the age-chat relay: the server's listener and per-connection *)
(* tasks (src/src/server/comms.rs) with the shared user_conns registry     *)
(* behind a fair (FIFO, write-preferring) tokio RwLock, the bounded relay  *)
(* channels, and the client communication actor (src/src/client/comms.rs). *)
(***************************************************************************)
EXTENDS Naturals, Sequences, FiniteSets, TLC

(* ------------------------------ bounds --------------------------------- *)

\* Frames the clients send to the server in one behaviour.
MaxMsgs == 5

\* Capacity of every mpsc channel.  The program uses 1000
\* (common.rs:12, client/comms.rs:17); the model scales it down to the
\* least capacity at which the order within a channel shows.
CHANNEL_BUFFER_SIZE == 2

(* ------------------------------ values --------------------------------- *)

Conns == {"c1", "c2"}

None == "None"

\* Strings a client may put in Auth.pub_key / Note.from / Note.to.
PubKeys == {"a", "b"}

\* Recipient::from_str accepts only well-formed age public keys.
ValidKey(k) == k \in {"a", "b"}

\* Values rand::rng().fill_bytes + hex::encode may produce.
Secrets == {"s1", "s2"}

Contents == {"hi"}

NoCipher == <<>>

\* age::encrypt_and_armor(recipient, secret)
Encrypt(k, s) == <<"age", k, s>>

\* age::decrypt(&self.priv_key, ciphertext) by the holder of key k's
\* private half: the secret, or an error for a ciphertext to another key.
Decrypt(k, ct) == IF Len(ct) = 3 /\ ct[1] = "age" /\ ct[2] = k THEN ct[3] ELSE None

Auth(k, ct, pt) == [pub_key |-> k, ciphertext |-> ct, plaintext |-> pt]

Note(f, t, x) == [from |-> f, to |-> t, encrypted_content |-> x]

Notes == {Note(f, t, x) : f \in PubKeys, t \in PubKeys, x \in Contents}

NoMsg == [type |-> None]

\* enum ClientMsg
AuthReq(a) == [type |-> "AuthReq", auth |-> a]
AuthPlaintext(a) == [type |-> "AuthPlaintext", auth |-> a]
SendNote(n) == [type |-> "SendNote", note |-> n]

\* enum ServerMsg
AuthSecret(a) == [type |-> "AuthSecret", auth |-> a]
AuthGranted(a) == [type |-> "AuthGranted", auth |-> a]
AuthDenied(a) == [type |-> "AuthDenied", auth |-> a]
RecNote(n) == [type |-> "RecNote", note |-> n]

\* impl Display for ClientMsg / ServerMsg: the serde-tagged JSON text,
\* the discriminator first, then the payload's fields.
to_string(m) ==
    IF m.type = "SendNote" \/ m.type = "RecNote"
    THEN <<m.type, m.note.from, m.note.to, m.note.encrypted_content>>
    ELSE <<m.type, m.auth.pub_key, m.auth.ciphertext, m.auth.plaintext>>

\* Message::text(self.to_string())
to_ws_msg(m) == [kind |-> "Text", payload |-> to_string(m)]

NoFrame == [kind |-> None]

DecodeErr == [type |-> "DecodeErr"]

\* impl FromStr for ClientMsg: serde_json::from_str, which rejects unknown
\* discriminators and records of the wrong shape.
ClientMsgFromStr(p) ==
    IF Len(p) = 4 /\ p[1] \in {"AuthReq", "AuthPlaintext"}
    THEN [type |-> p[1], auth |-> Auth(p[2], p[3], p[4])]
    ELSE IF Len(p) = 4 /\ p[1] = "SendNote"
    THEN [type |-> "SendNote", note |-> Note(p[2], p[3], p[4])]
    ELSE DecodeErr

\* impl FromStr for ServerMsg
ServerMsgFromStr(p) ==
    IF Len(p) = 4 /\ p[1] \in {"AuthSecret", "AuthGranted", "AuthDenied"}
    THEN [type |-> p[1], auth |-> Auth(p[2], p[3], p[4])]
    ELSE IF Len(p) = 4 /\ p[1] = "RecNote"
    THEN [type |-> "RecNote", note |-> Note(p[2], p[3], p[4])]
    ELSE DecodeErr

(* ------------------------------ state ---------------------------------- *)

VARIABLES
    lpc,          \* serve(): "accept", "join", "done", "err"
    pc,           \* per connection task: where it is suspended
    cur,          \* per connection: the message its handler is working on
    pub_key,      \* Connection.pub_key
    auth_secret,  \* Connection.auth_secret
    note_rx,      \* per connection: contents of its relay channel
    user_conns,   \* the registry: pub key -> connection whose note_tx it holds
    lock,         \* the RwLock around user_conns
    sock_out,     \* per connection: the frame it wrote to its stream last
    ctrl_c,       \* per connection: its select's ctrl_c future has completed
    fired,        \* the process has received ctrl-c
    lsig,         \* the listener's ctrl_c future has completed
    nmsgs,        \* frames received from clients so far
    \* --- one client process (client/mod.rs, client/comms.rs, client/tui.rs)
    cpc,          \* the communication task: where it is suspended
    ccur,         \* the message that task is working on
    outgoing,     \* contents of the outgoing channel (UI -> task)
    incoming,     \* contents of the incoming channel (task -> UI)
    csock,        \* the frame the task wrote to its stream last
    shutdown_rx,  \* per receiver ("task", "ui"): a broadcast () is pending
    broadcast,    \* shutdown_tx.send(()) has been called
    upc,          \* client::run / App::run: where the UI thread is
    authenticated \* App.authenticated

svars == <<lpc, pc, cur, pub_key, auth_secret, note_rx, user_conns, lock,
           sock_out, ctrl_c, fired, lsig, nmsgs>>

cvars == <<cpc, ccur, outgoing, incoming, csock, shutdown_rx, broadcast, upc,
           authenticated>>

vars == <<svars, cvars>>

\* The server after serve has bound its listener (server/comms.rs).
ServerInit ==
    /\ lpc = "accept"
    /\ pc = [c \in Conns |-> "idle"]
    /\ cur = [c \in Conns |-> NoMsg]
    /\ pub_key = [c \in Conns |-> None]
    /\ auth_secret = [c \in Conns |-> None]
    /\ note_rx = [c \in Conns |-> <<>>]
    /\ user_conns = [k \in PubKeys |-> None]
    /\ lock = [r |-> {}, w |-> None, q |-> <<>>]
    /\ sock_out = [c \in Conns |-> NoFrame]
    /\ ctrl_c = [c \in Conns |-> FALSE]
    /\ fired = FALSE
    /\ lsig = FALSE
    /\ nmsgs = 0

\* The client after Comms::run has spawned its task (client/mod.rs).
ClientInit ==
    /\ cpc = "select"
    /\ ccur = NoMsg
    /\ outgoing = <<>>
    /\ incoming = <<>>
    /\ csock = NoFrame
    /\ shutdown_rx = [r \in {"task", "ui"} |-> FALSE]
    /\ broadcast = FALSE
    /\ upc = "start"
    /\ authenticated = FALSE

Init == ServerInit /\ ClientInit

(* --------------------- tokio::sync::RwLock (fair) ---------------------- *)

\* Hand the lock to the waiters at the head of the queue that can take it:
\* a run of readers while no writer holds it, or one writer once it is free.
RECURSIVE Grant(_)
Grant(L) ==
    IF L.q = <<>> THEN L
    ELSE LET h == Head(L.q) IN
         IF h[2] = "r"
         THEN IF L.w = None
              THEN Grant([L EXCEPT !.r = @ \cup {h[1]}, !.q = Tail(@)])
              ELSE L
         ELSE IF L.w = None /\ L.r = {}
              THEN [L EXCEPT !.w = h[1], !.q = Tail(@)]
              ELSE L

\* user_conns.read().await: queue behind every earlier waiter.
AcquireRead(L, c) == Grant([L EXCEPT !.q = Append(@, <<c, "r">>)])

\* user_conns.write().await
AcquireWrite(L, c) == Grant([L EXCEPT !.q = Append(@, <<c, "w">>)])

\* Dropping a guard (a no-op for a task that holds none).
Release(L, c) ==
    Grant([L EXCEPT !.r = @ \ {c}, !.w = IF @ = c THEN None ELSE @])

(* ----------------------------- helpers --------------------------------- *)

\* The task of connection c is suspended at p.
At(c, p) == pc[c] = p

\* self.socket.send(msg.to_ws_msg()).await succeeded
SocketSend(c, m) ==
    sock_out' = [sock_out EXCEPT ![c] = to_ws_msg(m)]

\* The select! took a branch other than ctrl_c: that future is dropped.
DropCtrlC(c) == ctrl_c' = [ctrl_c EXCEPT ![c] = FALSE]

\* Connection::serve closing the socket first and skipping the removal
\* from the registry.
ServeCloseFirst(c, L) ==
    /\ cur' = [cur EXCEPT ![c] = NoMsg]
    /\ pc' = [pc EXCEPT ![c] = "close"]
    /\ lock' = L

\* serve_client_ws_conn returned (Ok or Err) with the guards it held and
\* the message it was handling dropped, leaving lock value L:
\* Connection::serve goes on to the cleanup.
ServeCleanupStart(c, L) ==
    /\ cur' = [cur EXCEPT ![c] = NoMsg]
    /\ IF pub_key[c] # None
       THEN /\ pc' = [pc EXCEPT ![c] = "cleanup"]
            /\ lock' = AcquireWrite(L, c)
       ELSE /\ pc' = [pc EXCEPT ![c] = "close"]
            /\ lock' = L

\* The mpsc channel of connection r has lost its Receiver.
Closed(r) == pc[r] = "done"

Full(r) == Len(note_rx[r]) >= CHANNEL_BUFFER_SIZE

(* ----------------------------- listener -------------------------------- *)

\* serve(): listener.accept() yields a stream; the spawned task's
\* Connection::new succeeds and the task enters its select loop.
Accept(c) ==
    /\ lpc = "accept" /\ pc[c] = "idle"
    /\ pc' = [pc EXCEPT ![c] = "select"]
    /\ lsig' = FALSE
    /\ UNCHANGED cvars
    /\ UNCHANGED <<lpc, cur, pub_key, auth_secret, note_rx, user_conns, lock,
                   sock_out, ctrl_c, fired, nmsgs>>

\* The spawned task's Connection::new fails (peer_addr or accept_async):
\* the task logs and returns without serving.
AcceptNewErr(c) ==
    /\ lpc = "accept" /\ pc[c] = "idle"
    /\ pc' = [pc EXCEPT ![c] = "done"]
    /\ lsig' = FALSE
    /\ UNCHANGED cvars
    /\ UNCHANGED <<lpc, cur, pub_key, auth_secret, note_rx, user_conns, lock,
                   sock_out, ctrl_c, fired, nmsgs>>

\* listener.accept() fails: `accept_res.context(..)?` returns the error from
\* serve, run and main; the process exits and every task, channel and the
\* registry go with it.
AcceptErr ==
    /\ lpc = "accept"
    /\ lpc' = "err"
    /\ pc' = [c \in Conns |-> "killed"]
    /\ cur' = [c \in Conns |-> NoMsg]
    /\ pub_key' = [c \in Conns |-> None]
    /\ auth_secret' = [c \in Conns |-> None]
    /\ note_rx' = [c \in Conns |-> <<>>]
    /\ user_conns' = [k \in PubKeys |-> None]
    /\ lock' = [r |-> {}, w |-> None, q |-> <<>>]
    /\ sock_out' = [c \in Conns |-> NoFrame]
    /\ ctrl_c' = [c \in Conns |-> FALSE]
    /\ lsig' = FALSE
    /\ UNCHANGED cvars
    /\ UNCHANGED <<fired, nmsgs>>

\* The process receives ctrl-c.  Only the signal::ctrl_c() futures that
\* are being awaited now (tasks at their select!) complete.
CtrlC ==
    /\ ~fired /\ lpc # "err"
    /\ fired' = TRUE
    /\ ctrl_c' = [c \in Conns |-> pc[c] = "select"]
    /\ lsig' = (lpc = "accept")
    /\ UNCHANGED cvars
    /\ UNCHANGED <<lpc, pc, cur, pub_key, auth_secret, note_rx, user_conns,
                   lock, sock_out, nmsgs>>

\* serve(): the ctrl_c branch of the listener's select!.
ListenerShutdown ==
    /\ lpc = "accept" /\ lsig
    /\ lpc' = "join"
    /\ UNCHANGED cvars
    /\ UNCHANGED <<pc, cur, pub_key, auth_secret, note_rx, user_conns, lock,
                   sock_out, ctrl_c, fired, lsig, nmsgs>>

\* serve(): join_all(task_handles).await completes, serve returns Ok.
ListenerJoin ==
    /\ lpc = "join"
    /\ \A c \in Conns : pc[c] \in {"idle", "done"}
    /\ lpc' = "done"
    /\ UNCHANGED cvars
    /\ UNCHANGED <<pc, cur, pub_key, auth_secret, note_rx, user_conns, lock,
                   sock_out, ctrl_c, fired, lsig, nmsgs>>

(* ------------------------ message handlers ----------------------------- *)

\* handle_auth_req up to its socket.send: a fresh secret s is stored, then
\* the claimed key is parsed and the secret encrypted to it.
handle_auth_req(c, auth, s) ==
    /\ auth_secret' = [auth_secret EXCEPT ![c] = s]
    /\ IF ValidKey(auth.pub_key)
       THEN /\ pc' = [pc EXCEPT ![c] = "req_send"]
            /\ cur' = [cur EXCEPT ![c] =
                          AuthSecret(Auth(auth.pub_key, Encrypt(auth.pub_key, s), ""))]
            /\ lock' = lock
       ELSE ServeCleanupStart(c, lock)
    /\ UNCHANGED <<pub_key, note_rx, user_conns, sock_out>>

\* handle_auth_plaintext up to user_conns.read().await
handle_auth_plaintext(c, auth) ==
    /\ pc' = [pc EXCEPT ![c] = "pt_rlock"]
    /\ cur' = [cur EXCEPT ![c] = AuthPlaintext(auth)]
    /\ lock' = AcquireRead(lock, c)
    /\ UNCHANGED <<pub_key, auth_secret, note_rx, user_conns, sock_out>>

\* handle_send_note up to the echo's socket.send
handle_send_note(c, note) ==
    /\ pc' = [pc EXCEPT ![c] = "note_echo"]
    /\ cur' = [cur EXCEPT ![c] = SendNote(note)]
    /\ UNCHANGED <<pub_key, auth_secret, note_rx, user_conns, lock, sock_out>>

\* handle_client_ws_text_msg whose decode error skips the cleanup of the
\* registry and goes straight to the close.
handle_client_ws_text_msg_NoCleanup(c, payload) ==
    LET msg == ClientMsgFromStr(payload) IN
    \/ /\ msg = DecodeErr
       /\ pc' = [pc EXCEPT ![c] = "close"]
       /\ UNCHANGED <<cur, pub_key, auth_secret, note_rx, user_conns, sock_out,
                      lock>>
    \/ /\ msg.type = "AuthReq"
       /\ \E s \in Secrets : handle_auth_req(c, msg.auth, s)
    \/ /\ msg.type = "AuthPlaintext"
       /\ handle_auth_plaintext(c, msg.auth)
    \/ /\ msg.type = "SendNote"
       /\ handle_send_note(c, msg.note)

\* handle_client_ws_text_msg: decode the payload and dispatch.
handle_client_ws_text_msg(c, payload) ==
    LET msg == ClientMsgFromStr(payload) IN
    \/ /\ msg = DecodeErr
       /\ ServeCleanupStart(c, lock)
       /\ UNCHANGED <<pub_key, auth_secret, note_rx, user_conns, sock_out>>
    \/ /\ msg.type = "AuthReq"
       /\ \E s \in Secrets : handle_auth_req(c, msg.auth, s)
    \/ /\ msg.type = "AuthPlaintext"
       /\ handle_auth_plaintext(c, msg.auth)
    \/ /\ msg.type = "SendNote"
       /\ handle_send_note(c, msg.note)

(* ----------------- serve_client_ws_conn: the select! ------------------- *)

\* socket.next() yields a Text frame (cost: what it takes from the frame
\* budget MaxMsgs).
RecvText(c, payload, cost) ==
    /\ At(c, "select") /\ nmsgs + cost <= MaxMsgs
    /\ nmsgs' = nmsgs + cost
    /\ DropCtrlC(c)
    /\ handle_client_ws_text_msg(c, payload)
    /\ UNCHANGED cvars
    /\ UNCHANGED <<lpc, fired, lsig>>

\* socket.next() yields a Close frame: return Ok(()).
RecvClose(c) ==
    /\ At(c, "select")
    /\ DropCtrlC(c)
    /\ ServeCleanupStart(c, lock)
    /\ UNCHANGED cvars
    /\ UNCHANGED <<lpc, pub_key, auth_secret, note_rx, user_conns,
                   sock_out, fired, lsig, nmsgs>>

\* RecvUnsupported taking the frame for a breach of the protocol: the
\* pending secret of the handshake is withdrawn.
RecvUnsupportedReset(c, cost) ==
    /\ At(c, "select") /\ nmsgs + cost <= MaxMsgs
    /\ nmsgs' = nmsgs + cost
    /\ DropCtrlC(c)
    /\ auth_secret' = [auth_secret EXCEPT ![c] = None]
    /\ UNCHANGED cvars
    /\ UNCHANGED <<lpc, pc, cur, pub_key, note_rx, user_conns,
                   lock, sock_out, fired, lsig>>

\* socket.next() yields a Binary or raw Frame message: logged, ignored.
RecvUnsupported(c, cost) ==
    /\ At(c, "select") /\ nmsgs + cost <= MaxMsgs
    /\ nmsgs' = nmsgs + cost
    /\ DropCtrlC(c)
    /\ UNCHANGED cvars
    /\ UNCHANGED <<lpc, pc, cur, pub_key, auth_secret, note_rx, user_conns,
                   lock, sock_out, fired, lsig>>

\* socket.next() yields None (stream ended) or Some(Err): `??` returns Err.
RecvFail(c) ==
    /\ At(c, "select")
    /\ DropCtrlC(c)
    /\ ServeCleanupStart(c, lock)
    /\ UNCHANGED cvars
    /\ UNCHANGED <<lpc, pub_key, auth_secret, note_rx, user_conns,
                   sock_out, fired, lsig, nmsgs>>

\* RecvNote taking the newest note of the channel instead of the oldest.
RecvNoteLast(c) ==
    /\ At(c, "select") /\ note_rx[c] # <<>>
    /\ DropCtrlC(c)
    /\ cur' = [cur EXCEPT ![c] = RecNote(note_rx[c][Len(note_rx[c])])]
    /\ note_rx' = [note_rx EXCEPT ![c] = SubSeq(@, 1, Len(@) - 1)]
    /\ pc' = [pc EXCEPT ![c] = "fwd_send"]
    /\ UNCHANGED cvars
    /\ UNCHANGED <<lpc, pub_key, auth_secret, user_conns, lock, sock_out,
                   fired, lsig, nmsgs>>

\* note_rx.recv() yields the head of the relay channel.
RecvNote(c) ==
    /\ At(c, "select") /\ note_rx[c] # <<>>
    /\ DropCtrlC(c)
    /\ cur' = [cur EXCEPT ![c] = RecNote(Head(note_rx[c]))]
    /\ note_rx' = [note_rx EXCEPT ![c] = Tail(@)]
    /\ pc' = [pc EXCEPT ![c] = "fwd_send"]
    /\ UNCHANGED cvars
    /\ UNCHANGED <<lpc, pub_key, auth_secret, user_conns, lock, sock_out,
                   fired, lsig, nmsgs>>

\* The ctrl_c branch: return Ok(()).
Shutdown(c) ==
    /\ At(c, "select") /\ ctrl_c[c]
    /\ DropCtrlC(c)
    /\ ServeCleanupStart(c, lock)
    /\ UNCHANGED cvars
    /\ UNCHANGED <<lpc, pub_key, auth_secret, note_rx, user_conns,
                   sock_out, fired, lsig, nmsgs>>

(* ------------------- handlers: the later suspensions ------------------- *)

\* handle_auth_req: socket.send(AuthSecret) completes.
AuthReqSend(c) ==
    /\ At(c, "req_send")
    /\ SocketSend(c, cur[c])
    /\ pc' = [pc EXCEPT ![c] = "select"]
    /\ cur' = [cur EXCEPT ![c] = NoMsg]
    /\ UNCHANGED cvars
    /\ UNCHANGED <<lpc, pub_key, auth_secret, note_rx, user_conns, lock,
                   ctrl_c, fired, lsig, nmsgs>>

\* AuthPlaintextCheck without the comparison of the plaintext with the
\* pending secret: whatever the client sends back is taken for the secret.
AuthPlaintextCheckNoCompare(c) ==
    LET auth == cur[c].auth IN
    /\ At(c, "pt_rlock") /\ c \in lock.r
    /\ IF user_conns[auth.pub_key] # None
       THEN /\ pc' = [pc EXCEPT ![c] = "pt_dup_send"]
            /\ UNCHANGED <<lock, cur>>
       ELSE IF auth_secret[c] = None
       THEN ServeCleanupStart(c, Release(lock, c))
       ELSE /\ pc' = [pc EXCEPT ![c] = "pt_wlock"]
            /\ lock' = AcquireWrite(Release(lock, c), c)
            /\ cur' = cur
    /\ UNCHANGED cvars
    /\ UNCHANGED <<lpc, pub_key, auth_secret, note_rx, user_conns,
                   sock_out, ctrl_c, fired, lsig, nmsgs>>

\* AuthPlaintextCheck comparing the answer's identity as well: an answer
\* naming another key than the challenge written last is denied.
AuthPlaintextCheckIdentity(c) ==
    LET auth == cur[c].auth
        last == sock_out[c]
        challenged == IF last.kind = "Text" /\ last.payload[1] = "AuthSecret"
                      THEN last.payload[2] ELSE auth.pub_key
    IN
    /\ At(c, "pt_rlock") /\ c \in lock.r
    /\ IF user_conns[auth.pub_key] # None
       THEN /\ pc' = [pc EXCEPT ![c] = "pt_dup_send"]
            /\ UNCHANGED <<lock, cur>>
       ELSE IF auth_secret[c] = None
       THEN ServeCleanupStart(c, Release(lock, c))
       ELSE IF auth_secret[c] # auth.plaintext \/ challenged # auth.pub_key
       THEN /\ pc' = [pc EXCEPT ![c] = "pt_denied_send"]
            /\ lock' = Release(lock, c)
            /\ cur' = cur
       ELSE /\ pc' = [pc EXCEPT ![c] = "pt_wlock"]
            /\ lock' = AcquireWrite(Release(lock, c), c)
            /\ cur' = cur
    /\ UNCHANGED cvars
    /\ UNCHANGED <<lpc, pub_key, auth_secret, note_rx, user_conns,
                   sock_out, ctrl_c, fired, lsig, nmsgs>>

\* handle_auth_plaintext with the read guard: the duplicate check; without
\* a duplicate the guard is dropped and the plaintext compared.
AuthPlaintextCheck(c) ==
    LET auth == cur[c].auth IN
    /\ At(c, "pt_rlock") /\ c \in lock.r
    /\ IF user_conns[auth.pub_key] # None
       THEN /\ pc' = [pc EXCEPT ![c] = "pt_dup_send"]
            /\ UNCHANGED <<lock, cur>>
       ELSE IF auth_secret[c] = None
       THEN ServeCleanupStart(c, Release(lock, c))
       ELSE IF auth_secret[c] # auth.plaintext
       THEN /\ pc' = [pc EXCEPT ![c] = "pt_denied_send"]
            /\ lock' = Release(lock, c)
            /\ cur' = cur
       ELSE /\ pc' = [pc EXCEPT ![c] = "pt_wlock"]
            /\ lock' = AcquireWrite(Release(lock, c), c)
            /\ cur' = cur
    /\ UNCHANGED cvars
    /\ UNCHANGED <<lpc, pub_key, auth_secret, note_rx, user_conns,
                   sock_out, ctrl_c, fired, lsig, nmsgs>>

\* AuthDupDeniedSend answering the duplicate with AuthGranted.
AuthDupGrantedSend(c) ==
    /\ At(c, "pt_dup_send")
    /\ SocketSend(c, AuthGranted(cur[c].auth))
    /\ lock' = Release(lock, c)
    /\ pc' = [pc EXCEPT ![c] = "select"]
    /\ cur' = [cur EXCEPT ![c] = NoMsg]
    /\ UNCHANGED cvars
    /\ UNCHANGED <<lpc, pub_key, auth_secret, note_rx, user_conns, ctrl_c,
                   fired, lsig, nmsgs>>

\* socket.send(AuthDenied) inside the read guard's block, then return Ok.
AuthDupDeniedSend(c) ==
    /\ At(c, "pt_dup_send")
    /\ SocketSend(c, AuthDenied(cur[c].auth))
    /\ lock' = Release(lock, c)
    /\ pc' = [pc EXCEPT ![c] = "select"]
    /\ cur' = [cur EXCEPT ![c] = NoMsg]
    /\ UNCHANGED cvars
    /\ UNCHANGED <<lpc, pub_key, auth_secret, note_rx, user_conns, ctrl_c,
                   fired, lsig, nmsgs>>

\* socket.send(AuthDenied) after a wrong plaintext, then return Ok.
AuthDeniedSend(c) ==
    /\ At(c, "pt_denied_send")
    /\ SocketSend(c, AuthDenied(cur[c].auth))
    /\ pc' = [pc EXCEPT ![c] = "select"]
    /\ cur' = [cur EXCEPT ![c] = NoMsg]
    /\ UNCHANGED cvars
    /\ UNCHANGED <<lpc, pub_key, auth_secret, note_rx, user_conns, lock,
                   ctrl_c, fired, lsig, nmsgs>>

\* AuthInsert without the insert into user_conns.
AuthInsertNoRegistry(c) ==
    LET auth == cur[c].auth IN
    /\ At(c, "pt_wlock") /\ lock.w = c
    /\ pub_key' = [pub_key EXCEPT ![c] = auth.pub_key]
    /\ pc' = [pc EXCEPT ![c] = "pt_granted_send"]
    /\ UNCHANGED cvars
    /\ UNCHANGED <<lpc, cur, auth_secret, note_rx, user_conns, lock, sock_out,
                   ctrl_c, fired, lsig, nmsgs>>

\* With the write guard: insert pub_key -> note_tx, set self.pub_key.
AuthInsert(c) ==
    LET auth == cur[c].auth IN
    /\ At(c, "pt_wlock") /\ lock.w = c
    /\ user_conns' = [user_conns EXCEPT ![auth.pub_key] = c]
    /\ pub_key' = [pub_key EXCEPT ![c] = auth.pub_key]
    /\ pc' = [pc EXCEPT ![c] = "pt_granted_send"]
    /\ UNCHANGED cvars
    /\ UNCHANGED <<lpc, cur, auth_secret, note_rx, lock, sock_out, ctrl_c,
                   fired, lsig, nmsgs>>

\* socket.send(AuthGranted), still under the write guard; return Ok.
AuthGrantedSend(c) ==
    /\ At(c, "pt_granted_send")
    /\ SocketSend(c, AuthGranted(cur[c].auth))
    /\ lock' = Release(lock, c)
    /\ pc' = [pc EXCEPT ![c] = "select"]
    /\ cur' = [cur EXCEPT ![c] = NoMsg]
    /\ UNCHANGED cvars
    /\ UNCHANGED <<lpc, pub_key, auth_secret, note_rx, user_conns, ctrl_c,
                   fired, lsig, nmsgs>>

\* handle_send_note: the echo is written, then user_conns.read().await.
NoteEchoSend(c) ==
    /\ At(c, "note_echo")
    /\ SocketSend(c, RecNote(cur[c].note))
    /\ pc' = [pc EXCEPT ![c] = "note_rlock"]
    /\ lock' = AcquireRead(lock, c)
    /\ UNCHANGED cvars
    /\ UNCHANGED <<lpc, cur, pub_key, auth_secret, note_rx, user_conns,
                   ctrl_c, fired, lsig, nmsgs>>

\* RelaySend on a channel without a capacity: the push always goes through.
RelaySendUnbounded(c, r, suspended) ==
    IF Closed(r)
    THEN /\ ServeCleanupStart(c, Release(lock, c))
         /\ note_rx' = note_rx
    ELSE /\ note_rx' = [note_rx EXCEPT ![r] = Append(@, cur[c].note)]
         /\ lock' = Release(lock, c)
         /\ pc' = [pc EXCEPT ![c] = "select"]
         /\ cur' = [cur EXCEPT ![c] = NoMsg]

\* recipient_tx.send(note).await on the channel of connection r, reached
\* with the read guard held: Err if the Receiver is gone, the push if there
\* is room, and otherwise the task stays suspended with the guard.
RelaySend(c, r, suspended) ==
    IF Closed(r)
    THEN /\ ServeCleanupStart(c, Release(lock, c))
         /\ note_rx' = note_rx
    ELSE IF ~Full(r)
    THEN /\ note_rx' = [note_rx EXCEPT ![r] = Append(@, cur[c].note)]
         /\ lock' = Release(lock, c)
         /\ pc' = [pc EXCEPT ![c] = "select"]
         /\ cur' = [cur EXCEPT ![c] = NoMsg]
    ELSE /\ ~suspended
         /\ pc' = [pc EXCEPT ![c] = "note_push"]
         /\ UNCHANGED <<cur, note_rx, lock>>

\* NoteLookup returning an error for a recipient that is not registered.
NoteLookupErrOnAbsent(c) ==
    LET r == user_conns[cur[c].note.to] IN
    /\ At(c, "note_rlock") /\ c \in lock.r
    /\ IF r = None
       THEN /\ ServeCleanupStart(c, Release(lock, c))
            /\ note_rx' = note_rx
       ELSE RelaySend(c, r, FALSE)
    /\ UNCHANGED cvars
    /\ UNCHANGED <<lpc, pub_key, auth_secret, user_conns, sock_out, ctrl_c,
                   fired, lsig, nmsgs>>

\* handle_send_note with the read guard: look the recipient up.
NoteLookup(c) ==
    LET r == user_conns[cur[c].note.to] IN
    /\ At(c, "note_rlock") /\ c \in lock.r
    /\ IF r = None
       THEN /\ lock' = Release(lock, c)
            /\ pc' = [pc EXCEPT ![c] = "select"]
            /\ cur' = [cur EXCEPT ![c] = NoMsg]
            /\ note_rx' = note_rx
       ELSE RelaySend(c, r, FALSE)
    /\ UNCHANGED cvars
    /\ UNCHANGED <<lpc, pub_key, auth_secret, user_conns, sock_out, ctrl_c,
                   fired, lsig, nmsgs>>

\* The suspended recipient_tx.send resumes.
NotePush(c) ==
    /\ At(c, "note_push")
    /\ RelaySend(c, user_conns[cur[c].note.to], TRUE)
    /\ UNCHANGED cvars
    /\ UNCHANGED <<lpc, pub_key, auth_secret, user_conns, sock_out, ctrl_c,
                   fired, lsig, nmsgs>>

\* The note_rx branch's socket.send(RecNote) completes.
ForwardSend(c) ==
    /\ At(c, "fwd_send")
    /\ SocketSend(c, cur[c])
    /\ pc' = [pc EXCEPT ![c] = "select"]
    /\ cur' = [cur EXCEPT ![c] = NoMsg]
    /\ UNCHANGED cvars
    /\ UNCHANGED <<lpc, pub_key, auth_secret, note_rx, user_conns, lock,
                   ctrl_c, fired, lsig, nmsgs>>

SendPcs == {"req_send", "pt_dup_send", "pt_denied_send", "pt_granted_send",
            "note_echo", "fwd_send"}

\* A socket.send(..).await? fails: the handler's guards are dropped and
\* serve_client_ws_conn returns the error.
SocketSendErr(c) ==
    /\ pc[c] \in SendPcs
    /\ ServeCleanupStart(c, Release(lock, c))
    /\ UNCHANGED cvars
    /\ UNCHANGED <<lpc, pub_key, auth_secret, note_rx, user_conns,
                   sock_out, ctrl_c, fired, lsig, nmsgs>>

(* --------------------- Connection::serve: teardown --------------------- *)

\* Cleanup that takes and drops the write guard without the remove.
CleanupNoRemove(c) ==
    /\ At(c, "cleanup") /\ lock.w = c
    /\ lock' = Release(lock, c)
    /\ pc' = [pc EXCEPT ![c] = "close"]
    /\ UNCHANGED cvars
    /\ UNCHANGED <<lpc, cur, pub_key, auth_secret, note_rx, user_conns, sock_out,
                   ctrl_c, fired, lsig, nmsgs>>

\* With the write guard: user_conns.remove(&username); guard dropped.
Cleanup(c) ==
    /\ At(c, "cleanup") /\ lock.w = c
    /\ user_conns' = [user_conns EXCEPT ![pub_key[c]] = None]
    /\ lock' = Release(lock, c)
    /\ pc' = [pc EXCEPT ![c] = "close"]
    /\ UNCHANGED cvars
    /\ UNCHANGED <<lpc, cur, pub_key, auth_secret, note_rx, sock_out, ctrl_c,
                   fired, lsig, nmsgs>>

\* socket.close(None).await, its result ignored; serve returns Ok and the
\* Connection is dropped: its socket, its channel with what it still holds,
\* its pub_key and its auth_secret.
Close(c) ==
    /\ At(c, "close")
    /\ pc' = [pc EXCEPT ![c] = "done"]
    /\ note_rx' = [note_rx EXCEPT ![c] = <<>>]
    /\ pub_key' = [pub_key EXCEPT ![c] = None]
    /\ auth_secret' = [auth_secret EXCEPT ![c] = None]
    /\ sock_out' = [sock_out EXCEPT ![c] = NoFrame]
    /\ UNCHANGED cvars
    /\ UNCHANGED <<lpc, cur, user_conns, lock, ctrl_c, fired, lsig, nmsgs>>

(* ------------------- client: the communication task -------------------- *)

\* The key file and the recipient the client was started with.
MyKey == "a"

MyRecipient == "b"

\* shutdown_tx.send(()): every receiver of the broadcast channel gets ().
ShutdownSend ==
    /\ shutdown_rx' = [r \in {"task", "ui"} |-> TRUE]
    /\ broadcast' = TRUE

\* select!: outgoing_rx.recv() yields the next message of the UI.
ClientRecvOutgoing ==
    /\ cpc = "select"
    /\ outgoing # <<>>
    /\ ccur' = Head(outgoing)
    /\ outgoing' = Tail(outgoing)
    /\ cpc' = "write"
    /\ UNCHANGED <<incoming, csock, shutdown_rx, broadcast, upc, authenticated>>
    /\ UNCHANGED svars

\* write.send(ws_msg).await completes.
ClientWrite ==
    /\ cpc = "write"
    /\ csock' = to_ws_msg(ccur)
    /\ ccur' = NoMsg
    /\ cpc' = "select"
    /\ UNCHANGED <<outgoing, incoming, shutdown_rx, broadcast, upc, authenticated>>
    /\ UNCHANGED svars

\* write.send(ws_msg).await fails: talk_server_socket returns the error.
ClientWriteErr ==
    /\ cpc = "write"
    /\ ccur' = NoMsg
    /\ cpc' = "close"
    /\ UNCHANGED <<outgoing, incoming, csock, shutdown_rx, broadcast, upc,
                   authenticated>>
    /\ UNCHANGED svars

\* select!: read.next() yields a Text frame; a payload that does not decode
\* ends the task, a ServerMsg goes to incoming_tx.send(msg).await.
ClientReadText(payload) ==
    /\ cpc = "select"
    /\ LET m == ServerMsgFromStr(payload) IN
        IF m = DecodeErr
        THEN /\ cpc' = "close"
             /\ ccur' = ccur
        ELSE /\ cpc' = "push"
             /\ ccur' = m
    /\ UNCHANGED <<outgoing, incoming, csock, shutdown_rx, broadcast, upc,
                   authenticated>>
    /\ UNCHANGED svars

\* incoming_tx.send(msg).await: completes once the channel has room; the
\* receiver lives in Comms, which client::run keeps until wait_shutdown ends.
ClientPush ==
    /\ cpc = "push"
    /\ Len(incoming) < CHANNEL_BUFFER_SIZE
    /\ incoming' = Append(incoming, ccur)
    /\ ccur' = NoMsg
    /\ cpc' = "select"
    /\ UNCHANGED <<outgoing, csock, shutdown_rx, broadcast, upc, authenticated>>
    /\ UNCHANGED svars

\* ClientReadClose that ends the task without the broadcast.
ClientReadCloseSilent ==
    /\ cpc = "select"
    /\ cpc' = "close"
    /\ UNCHANGED <<ccur, outgoing, incoming, csock, shutdown_rx, broadcast, upc,
                   authenticated>>
    /\ UNCHANGED svars

\* select!: read.next() yields a Close frame.
ClientReadClose ==
    /\ cpc = "select"
    /\ ShutdownSend
    /\ cpc' = "close"
    /\ UNCHANGED <<ccur, outgoing, incoming, csock, upc, authenticated>>
    /\ UNCHANGED svars

\* select!: read.next() yields any other frame.
ClientReadOther ==
    /\ cpc = "select"
    /\ UNCHANGED cvars
    /\ UNCHANGED svars

\* select!: read.next() yields None or an error.
ClientReadFail ==
    /\ cpc = "select"
    /\ cpc' = "close"
    /\ UNCHANGED <<ccur, outgoing, incoming, csock, shutdown_rx, broadcast, upc,
                   authenticated>>
    /\ UNCHANGED svars

\* select!: shutdown_rx.recv() yields.
ClientShutdown ==
    /\ cpc = "select"
    /\ shutdown_rx["task"]
    /\ shutdown_rx' = [shutdown_rx EXCEPT !["task"] = FALSE]
    /\ cpc' = "close"
    /\ UNCHANGED <<ccur, outgoing, incoming, csock, broadcast, upc, authenticated>>
    /\ UNCHANGED svars

\* The spawned task after talk_server_socket: socket.close, then it ends.
ClientClose ==
    /\ cpc = "close"
    /\ cpc' = "ended"
    /\ UNCHANGED <<ccur, outgoing, incoming, csock, shutdown_rx, broadcast, upc,
                   authenticated>>
    /\ UNCHANGED svars

(* --------------------------- client: the UI ---------------------------- *)

\* try_send_msg that appends whether or not the channel has room.
TrySendMsgNoCheck(m, next) ==
    /\ outgoing' = Append(outgoing, m)
    /\ upc' = next
    /\ cpc' = cpc

\* self.comms.try_send_msg(m)?: an error of the UI when outgoing is full
\* or closed (the ended task has dropped outgoing_rx).  An error of
\* App::run ends client::run, and with it the process.
TrySendMsg(m, next) ==
    IF Len(outgoing) < CHANNEL_BUFFER_SIZE /\ cpc # "ended"
    THEN /\ outgoing' = Append(outgoing, m)
         /\ upc' = next
         /\ cpc' = cpc
    ELSE /\ outgoing' = outgoing
         /\ upc' = "failed"
         /\ cpc' = "killed"

\* App::run before its loop: the AuthReq for the client's key.
UiStart ==
    /\ upc = "start"
    /\ TrySendMsg(AuthReq(Auth(MyKey, NoCipher, "")), "top")
    /\ UNCHANGED <<ccur, incoming, csock, shutdown_rx, broadcast, authenticated>>
    /\ UNCHANGED svars

\* The loop's first statement: shutdown_rx.try_recv(); run returns on a
\* signal and client::run goes on to wait_shutdown.
UiTop ==
    /\ upc = "top"
    /\ IF shutdown_rx["ui"]
       THEN /\ upc' = "wait"
            /\ shutdown_rx' = [shutdown_rx EXCEPT !["ui"] = FALSE]
       ELSE /\ upc' = "drain"
            /\ shutdown_rx' = shutdown_rx
    /\ UNCHANGED <<cpc, ccur, outgoing, incoming, csock, broadcast, authenticated>>
    /\ UNCHANGED svars

\* while let Ok(msg) = try_recv_msg() { handle_msg(msg)? }: one message.
UiRecv ==
    /\ upc = "drain"
    /\ incoming # <<>>
    /\ incoming' = Tail(incoming)
    /\ LET m == Head(incoming) IN
        CASE m.type = "AuthSecret" ->
                LET pt == Decrypt(MyKey, m.auth.ciphertext) IN
                /\ IF pt = None
                   THEN /\ upc' = "failed"
                        /\ cpc' = "killed"
                        /\ outgoing' = outgoing
                   ELSE TrySendMsg(AuthPlaintext(
                            Auth(m.auth.pub_key, m.auth.ciphertext, pt)), "drain")
                /\ UNCHANGED <<shutdown_rx, broadcast, authenticated>>
          [] m.type = "AuthGranted" ->
                /\ authenticated' = TRUE
                /\ UNCHANGED <<cpc, outgoing, shutdown_rx, broadcast, upc>>
          [] m.type = "AuthDenied" ->
                /\ ShutdownSend
                /\ UNCHANGED <<cpc, outgoing, upc, authenticated>>
          [] OTHER ->
                UNCHANGED <<cpc, outgoing, shutdown_rx, broadcast, upc,
                            authenticated>>
    /\ UNCHANGED <<ccur, csock>>
    /\ UNCHANGED svars

\* try_recv_msg() has nothing: the loop goes back to its top until the
\* client is authenticated, and on to the keys after that.
UiDrained ==
    /\ upc = "drain"
    /\ incoming = <<>>
    /\ upc' = IF authenticated THEN "keys" ELSE "top"
    /\ UNCHANGED <<cpc, ccur, outgoing, incoming, csock, shutdown_rx, broadcast,
                   authenticated>>
    /\ UNCHANGED svars

Keys == {"none", "ctrl_c", "enter"}

\* handle_keypresses: no key within the poll, Ctrl-C, or Enter (submit_note).
UiKey(k) ==
    /\ upc = "keys"
    /\ CASE k = "ctrl_c" ->
                /\ ShutdownSend
                /\ upc' = "top"
                /\ UNCHANGED <<cpc, outgoing>>
         [] k = "enter" ->
                /\ TrySendMsg(SendNote(Note(MyKey, MyRecipient, "hi")), "top")
                /\ UNCHANGED <<shutdown_rx, broadcast>>
         [] OTHER ->
                /\ upc' = "top"
                /\ UNCHANGED <<cpc, outgoing, shutdown_rx, broadcast>>
    /\ UNCHANGED <<ccur, incoming, csock, authenticated>>
    /\ UNCHANGED svars

\* Comms::wait_shutdown: self.task_handle.await.
wait_shutdown ==
    /\ upc = "wait"
    /\ cpc = "ended"
    /\ upc' = "exited"
    /\ UNCHANGED <<cpc, ccur, outgoing, incoming, csock, shutdown_rx, broadcast,
                   authenticated>>
    /\ UNCHANGED svars

(* --------------------------- specification ----------------------------- *)

\* What an arbitrary client may send as a Text payload: every encoded
\* ClientMsg over the small value sets, and one that does not decode.
ClientMsgs ==
    {AuthReq(Auth(k, NoCipher, "")) : k \in PubKeys}
    \cup {AuthPlaintext(Auth(k, NoCipher, p)) : k \in PubKeys, p \in Secrets}
    \cup {SendNote(n) : n \in Notes}

Payloads == {to_string(m) : m \in ClientMsgs} \cup {<<"Bogus">>}

\* The steps of connection c's task that no client input decides.
TaskStep(c) ==
    \/ RecvNote(c)
    \/ AuthReqSend(c)
    \/ AuthPlaintextCheck(c)
    \/ AuthInsert(c)
    \/ AuthGrantedSend(c)
    \/ NoteEchoSend(c)
    \/ NoteLookup(c)
    \/ NotePush(c)
    \/ ForwardSend(c)
    \/ Cleanup(c)
    \/ Close(c)

\* The server against arbitrary clients, without a shutdown signal.
Next ==
    \/ \E c \in Conns : Accept(c)
    \/ \E c \in Conns : AcceptNewErr(c)
    \/ AcceptErr
    \/ \E c \in Conns : \E p \in Payloads : RecvText(c, p, 1)
    \/ \E c \in Conns : RecvUnsupported(c, 1)
    \/ \E c \in Conns : RecvClose(c)
    \/ \E c \in Conns : RecvFail(c)
    \/ \E c \in Conns : TaskStep(c)
    \/ \E c \in Conns : AuthDupDeniedSend(c)
    \/ \E c \in Conns : AuthDeniedSend(c)
    \/ \E c \in Conns : SocketSendErr(c)

Spec == Init /\ [][Next]_vars

(* ------------------- claims: authentication (Spec) --------------------- *)

\* Connection c's task leaves the suspension point p in this step (the end
\* of the whole process by a failed accept is not a step of the task).
Leaves(c, p) == pc[c] = p /\ pc'[c] \notin {p, "killed"}

\* The teardown of Connection::serve, entered on any error of the loop.
Teardown == {"cleanup", "close"}

\* C1: an AuthReq for a valid key stores a generated secret as the
\* connection's auth_secret and prepares, then writes, AuthSecret with the
\* secret encrypted to the claimed key; an AuthPlaintext for a key that is
\* not registered, carrying the stored secret, goes on to the insert, which
\* registers key -> this connection and sets the connection's pub_key, and
\* the handler then writes AuthGranted with both still in place.
C1_AuthSuccess ==
    [][\A c \in Conns :
        /\ (pc[c] = "select" /\ pc'[c] = "req_send") =>
              /\ auth_secret'[c] \in Secrets
              /\ \E k \in PubKeys :
                    cur'[c] = AuthSecret(Auth(k, Encrypt(k, auth_secret'[c]), ""))
              /\ Decrypt(cur'[c].auth.pub_key, cur'[c].auth.ciphertext)
                    = auth_secret'[c]
        /\ (Leaves(c, "req_send") /\ pc'[c] \notin Teardown) =>
              /\ pc'[c] = "select"
              /\ sock_out'[c] = to_ws_msg(cur[c])
              /\ auth_secret'[c] = auth_secret[c]
        /\ (/\ Leaves(c, "pt_rlock")
            /\ user_conns[cur[c].auth.pub_key] = None
            /\ auth_secret[c] = cur[c].auth.plaintext) =>
              pc'[c] = "pt_wlock"
        /\ Leaves(c, "pt_wlock") =>
              /\ pc'[c] = "pt_granted_send"
              /\ user_conns' = [user_conns EXCEPT ![cur[c].auth.pub_key] = c]
              /\ pub_key'[c] = cur[c].auth.pub_key
        /\ (Leaves(c, "pt_granted_send") /\ pc'[c] \notin Teardown) =>
              /\ pc'[c] = "select"
              /\ sock_out'[c] = to_ws_msg(AuthGranted(cur[c].auth))
              /\ user_conns'[cur[c].auth.pub_key] = c
              /\ pub_key'[c] = cur[c].auth.pub_key
    ]_vars

\* A connection back at its select! with AuthGranted for its key written
\* last, registered under that key, the plaintext being its secret.
C1_Witness ==
    \E c \in Conns : \E k \in PubKeys :
        /\ pc[c] = "select"
        /\ auth_secret[c] \in Secrets
        /\ sock_out[c] = to_ws_msg(AuthGranted(Auth(k, NoCipher, auth_secret[c])))
        /\ pub_key[c] = k
        /\ user_conns[k] = c

\* C2: an AuthPlaintext whose plaintext differs from the pending secret is
\* never granted: the check leads to an AuthDenied write, the registry and
\* the connection's pub_key stay as they were through the check and the
\* write, and after the write the task is back at its select!.
C2_WrongSecretDenied ==
    [][\A c \in Conns :
        LET wrong == /\ auth_secret[c] \in Secrets
                     /\ cur[c].auth.plaintext # auth_secret[c] IN
        /\ (Leaves(c, "pt_rlock") /\ wrong) =>
              /\ pc'[c] \in {"pt_dup_send", "pt_denied_send"}
              /\ UNCHANGED <<user_conns, pub_key>>
        /\ (pc[c] \in {"pt_dup_send", "pt_denied_send"} /\ wrong
               /\ pc'[c] \notin {pc[c], "killed"} \cup Teardown) =>
              /\ pc'[c] = "select"
              /\ sock_out'[c] = to_ws_msg(AuthDenied(cur[c].auth))
              /\ UNCHANGED <<user_conns, pub_key>>
    ]_vars

\* A connection back at its select! after AuthDenied for a plaintext that
\* is not its secret, with no identity and the key not registered.
C2_Witness ==
    \E c \in Conns : \E k \in PubKeys : \E p \in Secrets :
        /\ pc[c] = "select"
        /\ auth_secret[c] \in Secrets /\ p # auth_secret[c]
        /\ sock_out[c] = to_ws_msg(AuthDenied(Auth(k, NoCipher, p)))
        /\ pub_key[c] = None
        /\ user_conns[k] = None

\* C3 (as claimed): an AuthReq for a key that is in the registry is not
\* answered with a challenge, and stores no secret.
C3_DuplicateDeniedAtRequest ==
    [][\A c \in Conns :
        (pc[c] = "select" /\ pc'[c] = "req_send") =>
            user_conns[cur'[c].auth.pub_key] = None
    ]_vars

\* C3 (amended): an AuthReq is answered with a challenge whether or not the
\* key is registered; the duplicate is denied when the AuthPlaintext
\* arrives: with the key in the registry the check leads, whatever the
\* plaintext, to an AuthDenied write, after which the task is back at its
\* select!, the registry and the connection's pub_key unchanged.
C3_DuplicateDeniedAtPlaintext ==
    [][\A c \in Conns :
        /\ (pc[c] = "select" /\ pc'[c] = "req_send") =>
              /\ auth_secret'[c] \in Secrets
              /\ cur'[c].type = "AuthSecret"
              /\ UNCHANGED <<user_conns, pub_key>>
        /\ (Leaves(c, "pt_rlock") /\ user_conns[cur[c].auth.pub_key] # None) =>
              /\ pc'[c] = "pt_dup_send"
              /\ UNCHANGED <<user_conns, pub_key>>
        /\ (Leaves(c, "pt_dup_send") /\ pc'[c] \notin Teardown) =>
              /\ pc'[c] = "select"
              /\ sock_out'[c] = to_ws_msg(AuthDenied(cur[c].auth))
              /\ UNCHANGED <<user_conns, pub_key>>
    ]_vars

\* A connection denied with the right secret in hand, while another one
\* is registered under the key.
C3_Witness ==
    \E c, d \in Conns : \E k \in PubKeys :
        /\ c # d
        /\ pc[c] = "select" /\ pub_key[c] = k /\ user_conns[k] = c
        /\ pc[d] = "select" /\ pub_key[d] = None
        /\ auth_secret[d] \in Secrets
        /\ sock_out[d] = to_ws_msg(AuthDenied(Auth(k, NoCipher, auth_secret[d])))

\* A connection's task is in its loop (serve_client_ws_conn has not returned).
InLoop(c) == pc[c] \notin {"idle", "cleanup", "close", "done", "killed"}

\* C4 (as claimed): for each key at most one connection in its loop has it
\* as pub_key, and the registry entry of the key is that connection's.
C4_UniqueIdentity ==
    \A k \in PubKeys :
        LET owners == {c \in Conns : InLoop(c) /\ pub_key[c] = k} IN
        /\ Cardinality(owners) <= 1
        /\ \A c \in owners : user_conns[k] = c

\* C5: a connection with a pub_key that has passed its cleanup owns no
\* entry of the registry, the cleanup leaves no entry under its key, and
\* with no entry under a key the duplicate check of a handshake with the
\* right secret passes on to the insert.
C5_DisconnectCleanup ==
    /\ [](\A c \in Conns :
            (pc[c] = "close" /\ pub_key[c] # None) =>
                user_conns[pub_key[c]] # c)
    /\ [][\A c \in Conns :
            /\ Leaves(c, "cleanup") =>
                  /\ pc'[c] = "close"
                  /\ user_conns'[pub_key[c]] = None
            /\ (/\ Leaves(c, "pt_rlock")
                /\ user_conns[cur[c].auth.pub_key] = None
                /\ auth_secret[c] \in Secrets
                /\ auth_secret[c] = cur[c].auth.plaintext) =>
                  pc'[c] \notin {"pt_dup_send", "pt_denied_send"}
       ]_vars

\* One connection is through its cleanup with key k, and another one has
\* been granted k since and is registered under it.
C5_Witness ==
    \E c, d \in Conns : \E k \in PubKeys :
        /\ c # d
        /\ pc[c] = "close" /\ pub_key[c] = k
        /\ pc[d] = "select" /\ pub_key[d] = k /\ user_conns[k] = d
        /\ auth_secret[d] \in Secrets
        /\ sock_out[d] = to_ws_msg(AuthGranted(Auth(k, NoCipher, auth_secret[d])))

(* ----------------------- claims: relay (Spec) -------------------------- *)

\* C7: a SendNote is echoed to the sender's stream and to no other, and
\* with the recipient absent from the registry at the lookup the handler
\* returns to the select! with nothing else changed: no channel gets the
\* note, no stream is written, the registry and the sender's pub_key and
\* auth_secret are as before.
C7_RelayUnreachable ==
    [][\A c \in Conns :
        /\ (pc[c] = "select" /\ pc'[c] = "note_echo") =>
              UNCHANGED <<note_rx, user_conns, pub_key, auth_secret, sock_out>>
        /\ (Leaves(c, "note_echo") /\ pc'[c] \notin Teardown) =>
              /\ pc'[c] = "note_rlock"
              /\ sock_out' = [sock_out EXCEPT ![c] = to_ws_msg(RecNote(cur[c].note))]
              /\ UNCHANGED <<note_rx, user_conns, pub_key, auth_secret>>
        /\ (Leaves(c, "note_rlock") /\ user_conns[cur[c].note.to] = None) =>
              /\ pc'[c] = "select"
              /\ UNCHANGED <<note_rx, user_conns, pub_key, auth_secret, sock_out>>
    ]_vars

\* A connection back at its select! after the echo of a note to a key
\* nobody is registered under, every channel empty and the other stream
\* never written.
C7_Witness ==
    \E c, d \in Conns : \E n \in Notes :
        /\ c # d
        /\ pc[c] = "select"
        /\ sock_out[c] = to_ws_msg(RecNote(n))
        /\ user_conns[n.to] = None
        /\ \A x \in Conns : note_rx[x] = <<>>
        /\ pc[d] = "select" /\ sock_out[d] = NoFrame

\* The suspension points of handle_send_note.
NotePcs == {"note_echo", "note_rlock", "note_push"}

\* C11: a relay channel changes only by a push of the note its sender is
\* handling at the tail, by its owner taking the head into the RecNote it
\* writes next, or by going away with its connection; the owner writes
\* exactly that RecNote to its stream before it takes anything else, and
\* a sender keeps the note it is handling until the push is done, so that
\* each stream carries the relayed notes in the order of their pushes,
\* none lost and none twice.
C11_RelayFIFO ==
    [][\A b \in Conns :
        /\ note_rx'[b] # note_rx[b] =>
              \/ \E a \in Conns :
                    /\ pc[a] \in {"note_rlock", "note_push"}
                    /\ pc'[a] = "select"
                    /\ user_conns[cur[a].note.to] = b
                    /\ note_rx'[b] = Append(note_rx[b], cur[a].note)
              \/ /\ pc[b] = "select" /\ pc'[b] = "fwd_send"
                 /\ cur'[b] = RecNote(Head(note_rx[b]))
                 /\ note_rx'[b] = Tail(note_rx[b])
              \/ /\ pc'[b] \in {"done", "killed"}
                 /\ note_rx'[b] = <<>>
        /\ pc[b] = "fwd_send" =>
              \/ pc'[b] = "fwd_send" /\ cur'[b] = cur[b] /\ sock_out'[b] = sock_out[b]
              \/ pc'[b] = "select" /\ sock_out'[b] = to_ws_msg(cur[b])
              \/ pc'[b] \in Teardown \cup {"killed"}
        /\ (pc[b] \in NotePcs /\ pc'[b] \in NotePcs) => cur'[b] = cur[b]
    ]_vars

\* A connection about to write the note it took from the head of its
\* channel while a different note, pushed after it, waits behind.
C11_Witness ==
    \E a, b \in Conns : \E n1, n2 \in Notes :
        /\ a # b /\ n1 # n2
        /\ pub_key[b] = n1.to /\ n2.to = n1.to /\ user_conns[n1.to] = b
        /\ pc[b] = "fwd_send" /\ cur[b] = RecNote(n1)
        /\ note_rx[b] = <<n2>>
        /\ pc[a] = "select" /\ sock_out[a] = to_ws_msg(RecNote(n2))

(* ------------------- claims: error containment (Spec) ------------------ *)

\* Every connection but c is where it was, with the identity, pending
\* secret, channel contents and stream it had.
OthersUntouched(c) ==
    \A d \in Conns \ {c} :
        /\ pc'[d] = pc[d] /\ cur'[d] = cur[d]
        /\ pub_key'[d] = pub_key[d] /\ auth_secret'[d] = auth_secret[d]
        /\ note_rx'[d] = note_rx[d] /\ sock_out'[d] = sock_out[d]

C14_ListenerResilient ==
    [][lpc = "accept" =>
          /\ lpc' = "accept"
          /\ \A c \in Conns : pc[c] # "killed" => pc'[c] # "killed"
    ]_vars

\* C23: a frame received by a connection that neither starts a handler
\* nor ends the loop (a Binary or raw Frame message) is a no-op: the task
\* stays at its select!, the registry, every relay channel and every
\* stream are as before, and so are the connection's pub_key and
\* auth_secret.
C23_UnsupportedNoOp ==
    [][\A c \in Conns :
        (/\ pc[c] = "select" /\ nmsgs' # nmsgs
         /\ \A d \in Conns : cur'[d] = cur[d] /\ pc'[d] \notin Teardown) =>
            /\ pc' = pc
            /\ user_conns' = user_conns
            /\ note_rx' = note_rx
            /\ sock_out' = sock_out
            /\ lock' = lock
            /\ pub_key' = pub_key
            /\ auth_secret' = auth_secret
    ]_vars

\* The only connection has received three frames, two of them its
\* handshake, and is at its select! with AuthGranted written last: the
\* third frame was an unsupported one.
C23_Witness ==
    \E c, d \in Conns :
        /\ c # d /\ pc[d] = "idle"
        /\ nmsgs = 3
        /\ pc[c] = "select" /\ pub_key[c] # None /\ user_conns[pub_key[c]] = c
        /\ sock_out[c] = to_ws_msg(AuthGranted(Auth(pub_key[c], NoCipher, auth_secret[c])))

\* C25 (as claimed): every entry of the registry leads to a connection
\* that has not completed its teardown and whose pub_key is the entry's
\* key.
C25_RegistryValid ==
    \A k \in PubKeys :
        user_conns[k] # None =>
            /\ pc[user_conns[k]] \notin {"idle", "done", "killed"}
            /\ pub_key[user_conns[k]] = k

\* C26 (as claimed): a step of the SendNote handler that writes the echo
\* or pushes the note onto a relay channel is a step of a connection
\* with an identity.
C26_RelayNeedsAuth ==
    [][\A c \in Conns :
        (/\ pc[c] \in {"note_echo", "note_rlock", "note_push"}
         /\ pc'[c] \notin {pc[c], "killed"}
         /\ \/ sock_out'[c] # sock_out[c]
            \/ \E r \in Conns : Len(note_rx'[r]) > Len(note_rx[r])) =>
            pub_key[c] # None
    ]_vars

\* C27 (as claimed): a note that an authenticated connection pushes onto
\* a relay channel has that connection's identity as its `from`.
C27_SenderAuthentic ==
    [][\A c \in Conns :
        (/\ pub_key[c] # None
         /\ pc[c] \in {"note_rlock", "note_push"} /\ pc'[c] = "select"
         /\ \E r \in Conns : note_rx'[r] = Append(note_rx[r], cur[c].note)) =>
            cur[c].note.from = pub_key[c]
    ]_vars

\* C28 (as claimed): the connection that handle_send_note finds in the
\* registry still has its Receiver, and the handler does not leave for
\* the teardown from the lookup or the push.
C28_PushNeverClosed ==
    /\ [](\A c \in Conns :
            (/\ pc[c] \in {"note_rlock", "note_push"} /\ c \in lock.r
             /\ user_conns[cur[c].note.to] # None) =>
                ~Closed(user_conns[cur[c].note.to]))
    /\ [][\A c \in Conns :
            pc[c] \in {"note_rlock", "note_push"} => pc'[c] \notin Teardown
       ]_vars

\* C30 (as claimed): the handler of a SendNote, which has written the
\* echo to its own stream, never pushes the note onto its own relay
\* channel, from where the note_rx branch would write it to the same
\* stream again.
C30_SingleDelivery ==
    [][\A c \in Conns :
        (pc[c] \in {"note_rlock", "note_push"} /\ pc'[c] = "select") =>
            note_rx'[c] = note_rx[c]
    ]_vars

(* ------------- claims: the handshake's state machine (Spec) ------------ *)

\* C18 (as claimed): when the handler has answered a wrong plaintext with
\* AuthDenied, the connection's pending secret is None.
C18_SecretClearedOnFailure ==
    [][\A c \in Conns :
        (Leaves(c, "pt_denied_send") /\ pc'[c] = "select") =>
            auth_secret'[c] = None
    ]_vars

\* C19 (as claimed): a connection with an identity does not act on an
\* AuthReq or AuthPlaintext: it enters neither handler, and its pending
\* secret stays as it is.
C19_AuthIgnoredOnceAuthenticated ==
    [][\A c \in Conns :
        (pc[c] = "select" /\ pub_key[c] # None /\ pc'[c] # "killed") =>
            /\ pc'[c] \notin {"req_send", "pt_rlock"}
            /\ auth_secret'[c] = auth_secret[c]
    ]_vars

\* The last frame written to c's socket is the challenge for identity i,
\* carrying c's pending secret encrypted to i.
ChallengedFor(c, i) ==
    /\ auth_secret[c] # None
    /\ sock_out[c] = to_ws_msg(AuthSecret(Auth(i, Encrypt(i, auth_secret[c]), "")))

\* C20: the identity of an AuthPlaintext is not compared with the identity
\* that was challenged. With the challenge for I written last, an
\* AuthPlaintext naming J # I with the pending secret as plaintext, J not
\* registered, passes the check, and the insert registers the connection
\* under J and sets its pub_key to J.
C20_IdentityNotChecked ==
    [][\A c \in Conns : \A i \in PubKeys :
        LET j == cur[c].auth.pub_key IN
        /\ (/\ Leaves(c, "pt_rlock")
            /\ ChallengedFor(c, i) /\ j # i
            /\ cur[c].auth.plaintext = auth_secret[c]
            /\ user_conns[j] = None) =>
              /\ pc'[c] = "pt_wlock"
              /\ cur'[c] = cur[c]
        /\ (/\ Leaves(c, "pt_wlock")
            /\ ChallengedFor(c, i) /\ j # i) =>
              /\ pc'[c] = "pt_granted_send"
              /\ user_conns' = [user_conns EXCEPT ![j] = c]
              /\ pub_key'[c] = j
    ]_vars

\* A connection registered under J and about to write AuthGranted for J,
\* the challenge on its socket naming another identity.
C20_Witness ==
    \E c \in Conns : \E i \in PubKeys :
        LET j == cur[c].auth.pub_key IN
        /\ pc[c] = "pt_granted_send"
        /\ ChallengedFor(c, i) /\ j # i
        /\ cur[c].auth.plaintext = auth_secret[c]
        /\ pub_key[c] = j
        /\ user_conns[j] = c

\* The key file each connection's client was started with (client/mod.rs).
ClientKey == [c \in Conns |-> IF c = "c1" THEN "a" ELSE "b"]

\* What the repository's own client (client/tui.rs App::run, handle_msg,
\* submit_note) sends next, read off what the server did to it last: an
\* AuthReq for its key first, the decrypted challenge back, and notes from
\* its key once it has been granted.
TuiMsgs(c) ==
    LET f == sock_out[c]
        k == ClientKey[c] IN
    {AuthReq(Auth(k, NoCipher, "")) :
        x \in {y \in {"start"} : auth_secret[c] = None}}
    \cup {AuthPlaintext(Auth(f.payload[2], f.payload[3], Decrypt(k, f.payload[3]))) :
        x \in {y \in {"challenged"} : /\ pub_key[c] = None
                                      /\ f.kind = "Text"
                                      /\ f.payload[1] = "AuthSecret"}}
    \cup {SendNote(Note(k, t, x)) :
        t \in {t \in PubKeys : pub_key[c] = k}, x \in Contents}

\* The server against the repository's client, whose streams stay
\* readable and writable, with the shutdown signal.
LiveNext ==
    \/ \E c \in Conns : Accept(c)
    \/ \E c \in Conns : \E m \in TuiMsgs(c) : RecvText(c, to_string(m), 0)
    \/ \E c \in Conns : RecvClose(c)
    \/ \E c \in Conns : TaskStep(c)
    \/ \E c \in Conns : Shutdown(c)
    \/ CtrlC
    \/ ListenerShutdown
    \/ ListenerJoin

\* The runtime runs every task that can run: a completed await is resumed
\* (weak fairness of each step of a handler and of the teardown), and
\* select! picks among its ready branches at random, so a branch that is
\* ready again and again is eventually taken (strong fairness of the
\* note_rx and ctrl_c branches).  Nothing is assumed of the clients.
LiveFairness ==
    /\ \A c \in Conns :
        /\ WF_vars(AuthReqSend(c))
        /\ WF_vars(AuthPlaintextCheck(c))
        /\ WF_vars(AuthInsert(c))
        /\ WF_vars(AuthGrantedSend(c))
        /\ WF_vars(NoteEchoSend(c))
        /\ WF_vars(NoteLookup(c))
        /\ WF_vars(NotePush(c))
        /\ WF_vars(ForwardSend(c))
        /\ WF_vars(Cleanup(c))
        /\ WF_vars(Close(c))
        /\ SF_vars(RecvNote(c))
        /\ SF_vars(Shutdown(c))
    /\ WF_vars(ListenerShutdown)
    /\ WF_vars(ListenerJoin)

LiveSpec == Init /\ [][LiveNext]_vars /\ LiveFairness

(* ------------------ claims: relay, shutdown (LiveSpec) ----------------- *)

\* C6 (as claimed): once connection a, authenticated as the note's sender,
\* handles a SendNote to the key connection b is authenticated and
\* registered under, b eventually writes RecNote with that note to its
\* stream (unless b's task leaves its loop first).
C6_RelayReachable ==
    \A a, b \in Conns : \A x \in Contents :
        LET n == Note(ClientKey[a], ClientKey[b], x) IN
        (/\ a # b
         /\ pc[a] = "note_echo" /\ cur[a] = SendNote(n)
         /\ pub_key[a] = n.from
         /\ InLoop(b) /\ pub_key[b] = n.to /\ user_conns[n.to] = b)
        ~> (sock_out[b] = to_ws_msg(RecNote(n)) \/ ~InLoop(b))

\* C10 (as claimed): while a connection is suspended pushing a note onto
\* the full channel of recipient r, no other connection waits for the
\* registry lock, except one that is itself sending to r.
C10_BackpressureIsolation ==
    \A a \in Conns :
        pc[a] = "note_push" =>
            LET r == user_conns[cur[a].note.to] IN
            \A i \in 1..Len(lock.q) :
                LET d == lock.q[i][1] IN
                d # a => (pc[d] = "note_rlock" /\ user_conns[cur[d].note.to] = r)

\* C16 (as claimed): with every client reading its stream, a task
\* suspended in its push onto a full relay channel eventually resumes.
C16_NoRelayDeadlock ==
    \A a \in Conns : (pc[a] = "note_push") ~> (pc[a] # "note_push")

\* C17 (as claimed, in the case it singles out): an authenticated
\* connection b that has left its message loop while another task a is
\* suspended pushing onto b's full channel eventually completes its
\* cleanup and its task terminates.
C17_TeardownCompletes ==
    \A a, b \in Conns :
        (/\ a # b
         /\ pc[b] \in Teardown /\ pub_key[b] # None
         /\ pc[a] = "note_push" /\ user_conns[cur[a].note.to] = b)
        ~> (pc[b] = "done")

\* C21 (as claimed): a task that is writing the challenge of a handshake
\* or forwarding a relayed note when the shutdown signal has fired (both
\* go straight back to the select!) observes the signal there and leaves
\* its loop for the teardown.
C21_AlreadyFired ==
    \A c \in Conns :
        (fired /\ pc[c] \in {"req_send", "fwd_send"})
        ~> (pc[c] \in Teardown \cup {"done"})

\* C8 (as claimed): once the shutdown signal has fired, every connection
\* task eventually terminates and the listener's serve returns.
C8_ShutdownTerminates ==
    fired ~> (/\ lpc \in {"done", "err"}
              /\ \A c \in Conns : pc[c] \in {"idle", "done", "killed"})

\* What the server's end of the client's stream can carry as Text.
ServerMsgs ==
    {AuthSecret(Auth(MyKey, Encrypt(k, "s1"), "")) : k \in {MyKey, MyRecipient}}
    \cup {AuthGranted(Auth(MyKey, NoCipher, "s1")),
          AuthDenied(Auth(MyKey, NoCipher, "s1")),
          RecNote(Note(MyRecipient, MyKey, "hi"))}

ServerPayloads == {to_string(m) : m \in ServerMsgs} \cup {<<"Bogus">>}

\* One client process against an arbitrary server.
ClientNext ==
    \/ ClientRecvOutgoing
    \/ ClientWrite
    \/ ClientWriteErr
    \/ \E p \in ServerPayloads : ClientReadText(p)
    \/ ClientPush
    \/ ClientReadClose
    \/ ClientReadOther
    \/ ClientReadFail
    \/ ClientShutdown
    \/ ClientClose
    \/ UiStart
    \/ UiTop
    \/ UiRecv
    \/ UiDrained
    \/ \E k \in Keys : UiKey(k)
    \/ wait_shutdown

\* The runtime runs the task whenever it can continue, the UI thread keeps
\* looping, and a select! whose shutdown branch stays ready takes it.
ClientFairness ==
    /\ WF_vars(ClientWrite)
    /\ WF_vars(ClientPush)
    /\ WF_vars(ClientClose)
    /\ SF_vars(ClientShutdown)
    /\ WF_vars(UiStart)
    /\ WF_vars(UiTop)
    /\ WF_vars(UiRecv)
    /\ WF_vars(UiDrained)
    /\ WF_vars(\E k \in Keys : UiKey(k))
    /\ WF_vars(wait_shutdown)

ClientSpec == Init /\ [][ClientNext]_vars /\ ClientFairness

\* C9 (as claimed): once the shutdown signal has been broadcast, the
\* client's communication task eventually ends and wait_shutdown returns
\* (or the process has already exited on an error of the UI).
C9_ClientShutdownTerminates ==
    broadcast ~> (cpc \in {"ended", "killed"} /\ upc \in {"exited", "failed"})


\* C15: the UI's polls never wait: wherever the UI is about to call
\* try_recv_msg or try_send_msg a step of the UI is possible.  With the
\* incoming queue empty try_recv_msg fails and the queue is as before; with
\* a message queued it takes exactly the head (an AuthGranted taken sets
\* authenticated).  try_send_msg with room appends its message at the
\* tail of outgoing; with outgoing full (or closed by the ended task) it
\* fails, outgoing is as before, and the error ends the UI.
C15_TryPrimitives ==
    /\ [](/\ upc = "start" => ENABLED UiStart
          /\ upc = "drain" => ENABLED (UiRecv \/ UiDrained)
          /\ upc = "keys" => ENABLED UiKey("enter"))
    /\ [][/\ (upc = "drain" /\ incoming = <<>> /\ upc' # upc) =>
                  /\ upc' \in {"top", "keys"}
                  /\ incoming' = incoming /\ outgoing' = outgoing
          /\ (upc = "drain" /\ Len(incoming') < Len(incoming)) =>
                  /\ incoming' = Tail(incoming)
                  /\ Head(incoming).type = "AuthGranted" => authenticated'
                  /\ Head(incoming).type = "AuthDenied" => broadcast'
          /\ (Len(outgoing') > Len(outgoing)) =>
                  /\ Len(outgoing) < CHANNEL_BUFFER_SIZE /\ cpc # "ended"
                  /\ \E m \in ClientMsgs \cup
                        {AuthPlaintext(Auth(MyKey, Encrypt(MyKey, s), s)) : s \in Secrets} :
                        outgoing' = Append(outgoing, m)
                  /\ upc \in {"start", "drain", "keys"}
                  /\ upc' # "failed"
          /\ (upc \in {"start", "keys"} /\ upc' = "failed") =>
                  /\ Len(outgoing) = CHANNEL_BUFFER_SIZE \/ cpc = "ended"
                  /\ outgoing' = outgoing
          /\ (/\ upc = "drain" /\ Len(incoming') < Len(incoming)
              /\ Head(incoming).type = "AuthSecret"
              /\ Decrypt(MyKey, Head(incoming).auth.ciphertext) # None) =>
                  IF Len(outgoing) = CHANNEL_BUFFER_SIZE \/ cpc = "ended"
                  THEN upc' = "failed" /\ outgoing' = outgoing
                  ELSE /\ upc' = "drain"
                       /\ outgoing' = Append(outgoing, AuthPlaintext(
                              Auth(Head(incoming).auth.pub_key,
                                   Head(incoming).auth.ciphertext,
                                   Decrypt(MyKey, Head(incoming).auth.ciphertext))))
       ]_vars

\* The UI has failed on Enter: its note found outgoing full, which still
\* holds the CHANNEL_BUFFER_SIZE messages sent before.
C15_Witness ==
    /\ upc = "failed"
    /\ authenticated
    /\ Len(outgoing) = CHANNEL_BUFFER_SIZE
    /\ \A i \in 1..Len(outgoing) : outgoing[i].type = "SendNote"
    /\ incoming = <<>>

\* C24: the communication task's events.  A Close frame broadcasts the
\* shutdown signal to every receiver and takes the task to the close of
\* its socket with the inbound queue as it was; a Text frame that decodes
\* is taken up as that ServerMsg and pushed, alone and unchanged, at the
\* end of the inbound queue; with the signal in the task's receiver the
\* shutdown branch can be taken and leads to the close; and the task ends
\* from the close of its socket only, which can always be taken.
C24_ClientEvents ==
    /\ [](/\ (cpc = "select" /\ shutdown_rx["task"]) => ENABLED ClientShutdown
          /\ cpc = "close" => ENABLED ClientClose)
    /\ [][/\ ClientReadClose =>
                /\ broadcast' /\ shutdown_rx'["task"] /\ shutdown_rx'["ui"]
                /\ cpc' = "close"
                /\ incoming' = incoming
          /\ \A p \in ServerPayloads :
                (ClientReadText(p) /\ ServerMsgFromStr(p) # DecodeErr) =>
                    /\ cpc' = "push"
                    /\ ccur' \in ServerMsgs /\ to_string(ccur') = p
                    /\ incoming' = incoming
          /\ (cpc = "push" /\ cpc' # "push" /\ cpc' # "killed") =>
                /\ cpc' = "select"
                /\ incoming' = Append(incoming, ccur)
          /\ ClientShutdown => cpc' = "close"
          /\ cpc' = "ended" => cpc \in {"close", "ended"}
          /\ (cpc = "close" /\ cpc' # "close") => cpc' \in {"ended", "killed"}
       ]_vars

\* The server's Close frame has arrived before the UI made a step: the
\* signal is broadcast, nothing was pushed, the task has closed its socket.
C24_Witness ==
    /\ upc = "start"
    /\ broadcast /\ shutdown_rx["ui"]
    /\ cpc = "ended"
    /\ incoming = <<>>

\* C29 (as claimed): when the communication task has ended, the shutdown
\* signal has been broadcast.
C29_EndImpliesBroadcast ==
    cpc = "ended" => broadcast

(* ------------------- the server and a client process ------------------- *)

\* The server with the repository's clients, and one client process with
\* an arbitrary server: the two halves of the program, each taken from its
\* start while the other has not moved.
SystemNext ==
    \/ ClientInit /\ LiveNext
    \/ ServerInit /\ ClientNext

SystemSpec == Init /\ [][SystemNext]_vars

\* C12: no relay channel, and neither queue of the client, ever holds more
\* than CHANNEL_BUFFER_SIZE entries; a task that finds the recipient's
\* channel full stays suspended in the push, the client's task likewise on
\* a full incoming queue, and the UI's try_send on a full outgoing queue
\* fails; none of them grows the queue.
C12_BoundedQueues ==
    /\ [](/\ \A c \in Conns : Len(note_rx[c]) <= CHANNEL_BUFFER_SIZE
          /\ Len(outgoing) <= CHANNEL_BUFFER_SIZE
          /\ Len(incoming) <= CHANNEL_BUFFER_SIZE)
    /\ [][/\ \A a \in Conns :
              LET r == user_conns[cur[a].note.to] IN
              (/\ pc[a] = "note_push" \/ (pc[a] = "note_rlock" /\ a \in lock.r)
               /\ r # None /\ ~Closed(r)
               /\ Len(note_rx[r]) = CHANNEL_BUFFER_SIZE) =>
                  /\ pc'[a] \in {pc[a], "note_push", "killed"}
                  /\ Len(note_rx'[r]) <= Len(note_rx[r])
          /\ (cpc = "push" /\ Len(incoming) = CHANNEL_BUFFER_SIZE) =>
                  /\ cpc' \in {"push", "killed"}
                  /\ Len(incoming') <= Len(incoming)
          /\ (/\ upc = "drain" /\ Len(incoming') < Len(incoming)
              /\ Head(incoming).type = "AuthSecret"
              /\ Decrypt(MyKey, Head(incoming).auth.ciphertext) # None
              /\ Len(outgoing) = CHANNEL_BUFFER_SIZE) =>
                  /\ upc' = "failed"
                  /\ outgoing' = outgoing
       ]_vars

\* A task suspended in its push on a recipient's channel that holds
\* CHANNEL_BUFFER_SIZE notes.
C12_Witness ==
    \E a \in Conns :
        /\ pc[a] = "note_push"
        /\ user_conns[cur[a].note.to] # None
        /\ Len(note_rx[user_conns[cur[a].note.to]]) = CHANNEL_BUFFER_SIZE

(* --------------- handshakes and teardown under a shutdown --------------- *)

\* The Text payloads of a client that only authenticates.
HandshakePayloads ==
    {to_string(m) : m \in {x \in ClientMsgs : x.type # "SendNote"}}
        \cup {<<"Bogus">>}

\* The server against clients that authenticate and leave in every way
\* the loop can end, with the shutdown signal.
TeardownNext ==
    \/ \E c \in Conns : Accept(c)
    \/ \E c \in Conns : AcceptNewErr(c)
    \/ \E c \in Conns : \E p \in HandshakePayloads : RecvText(c, p, 1)
    \/ \E c \in Conns : RecvClose(c)
    \/ \E c \in Conns : RecvFail(c)
    \/ \E c \in Conns : Shutdown(c)
    \/ \E c \in Conns : AuthReqSend(c)
    \/ \E c \in Conns : AuthPlaintextCheck(c)
    \/ \E c \in Conns : AuthInsert(c)
    \/ \E c \in Conns : AuthGrantedSend(c)
    \/ \E c \in Conns : AuthDupDeniedSend(c)
    \/ \E c \in Conns : AuthDeniedSend(c)
    \/ \E c \in Conns : SocketSendErr(c)
    \/ \E c \in Conns : Cleanup(c)
    \/ \E c \in Conns : Close(c)
    \/ CtrlC
    \/ ListenerShutdown
    \/ ListenerJoin

TeardownSpec == Init /\ [][TeardownNext]_vars

\* C22: however a connection's loop ends, the task goes to the removal
\* from the registry if it has an identity and to the close if not, the
\* removal comes before the close, a connection at the close owns no entry
\* under its identity, and the close, whose result is ignored, can always
\* be taken and ends the task.
C22_TeardownOrder ==
    /\ [](\A c \in Conns :
            pc[c] = "close" =>
                /\ ENABLED Close(c)
                /\ pub_key[c] # None => user_conns[pub_key[c]] # c)
    /\ [][\A c \in Conns :
            /\ (InLoop(c) /\ pc'[c] \in Teardown \cup {"done"}) =>
                  /\ pc'[c] = IF pub_key[c] # None THEN "cleanup" ELSE "close"
                  /\ pub_key'[c] = pub_key[c]
                  /\ user_conns' = user_conns
            /\ Leaves(c, "cleanup") =>
                  /\ pc'[c] = "close"
                  /\ user_conns' = [user_conns EXCEPT ![pub_key[c]] = None]
            /\ Leaves(c, "close") =>
                  /\ pc'[c] = "done"
                  /\ user_conns' = user_conns
       ]_vars

\* After the shutdown signal a connection with an identity is through the
\* removal and about to close its socket, its entry gone.
C22_Witness ==
    \E c \in Conns :
        /\ fired
        /\ pc[c] = "close"
        /\ pub_key[c] # None
        /\ user_conns[pub_key[c]] = None

=============================================================================
